---- MODULE Spec2Model ----
(***************************************************************************)
(* OCPP-J central system and charge point of the Central-Management-System *)
(* repository.                                                             *)
(*                                                                         *)
(*   Spec      one MyChargePoint session (csms.py) talking to the          *)
(*             CentralSystem (central_system.py): the tasks of the charge  *)
(*             point (the read loop with the handler it runs, and the      *)
(*             application tasks that invoke start_transaction and         *)
(*             stop_transaction), the two directions of the websocket and  *)
(*             the central system's handlers.                              *)
(*   SpecTest  the test client (ocpp_client_test.py) sending TEST_MESSAGES *)
(*             one by one to the CentralSystem.                            *)
(*   SpecApi   the broadcast server (ocpp_api.py): two websocket sessions  *)
(*             running websocket_endpoint, their peers writing frames of   *)
(*             every kind.                                                 *)
(*   SpecRelay the same server with three sessions, for the broadcast of   *)
(*             the raw frame over connected_clients.                       *)
(*   SpecParse one session of the broadcast server reading arrays of one   *)
(*             to five elements with every message type tag.               *)
(*   SpecSession  main of csms.py: start() and                             *)
(*             send_boot_notification_and_heartbeat gathered on one        *)
(*             connection, which closes at any time.                       *)
(*   SpecHeartbeat  SpecSession with the progress the event loop           *)
(*             guarantees (timers end, calls end, the lock is granted).    *)
(*   SpecBoot  send_boot_notification_and_heartbeat against a central      *)
(*             system that answers the BootNotification with any status    *)
(*             and interval.                                               *)
(*   SpecStart start_transaction and on_remote_start_transaction invoked   *)
(*             by two application tasks, the StartTransaction answered     *)
(*             with any status and transaction id.                         *)
(*   SpecOverlap  two overlapping invocations of start_transaction against *)
(*             the CentralSystem.                                          *)
(*   SpecClient  main of ocpp_client.py on its connection.                 *)
(*                                                                         *)
(* The ocpp library that both classes derive from is not part of the       *)
(* repository.  What the model takes from it is stated where it is used:   *)
(* start() reads one frame at a time and awaits the handler of a Call      *)
(* before it reads the next frame; call() serialises outbound Calls with a *)
(* lock, tags each with a fresh unique id and waits for the reply with     *)
(* that id or for its timeout; a Call with no registered handler is        *)
(* answered with a CallError NotImplemented; route_message writes the      *)
(* reply with connection.send(text) and returns None.  The connection of   *)
(* the broadcast server is a Starlette WebSocket, whose send() takes an    *)
(* ASGI message and raises TypeError on a string.                          *)
(***************************************************************************)
EXTENDS Integers, Sequences, FiniteSets, TLC

\* ------------------------------------------------------------------ bounds

\* Unique ids 1..MaxCalls are there for the first Call of an operation (the
\* StatusNotification that follows an accepted start or stop is always sent).
MaxCalls == 4
\* Calls the central system's operator sends to the charge point.
MaxOps == 2
\* Direct invocations of start_transaction / stop_transaction by the application.
MaxApp == 2
\* Frames the peers of the broadcast server write, all sessions together.
MaxFrames == 2
\* Peers of the broadcast server that close their connection.
MaxCloses == 1
\* Times the sleep of send_heartbeat ends.
MaxBeats == 2

\* --------------------------------------------------------------- constants

\* Python's None, for transaction_id and for the fields a frame does not carry.
None == -1
\* self.connector_id
ConnectorId == 1
\* transaction_id=1 in the central system's StartTransaction result
CsTransactionId == 1

\* interval=60 in the central system's BootNotification result
CsInterval == 60

\* Python truthiness of an optional integer: `if transaction_id`.
Truthy(x) == x # None /\ x # 0

\* ------------------------------------------------------------------ frames

\* A frame on the wire: [2, id, action, payload], [3, id, payload] or
\* [4, id, errorCode, ...].  The payload fields the handlers read or write are
\* kept (the others do not influence any handler).  `action` of a result is
\* not on the wire; it is kept to name the Call a result answers.
Frame(mt, id, action, connectorId, transactionId, status, type) ==
    [mtype |-> mt, id |-> id, action |-> action, connectorId |-> connectorId,
     transactionId |-> transactionId, status |-> status, type |-> type,
     interval |-> None]

CallFrame(id, action, connectorId, transactionId, status, type) ==
    Frame(2, id, action, connectorId, transactionId, status, type)

CallResult(m, transactionId, status) ==
    Frame(3, m.id, m.action, None, transactionId, status, "")

CallError(m, code) ==
    Frame(4, m.id, m.action, None, None, code, "")

\* A request before call() has given it a unique id.
Request(action, connectorId, transactionId, status) ==
    CallFrame(None, action, connectorId, transactionId, status, "")

NoFrame == Frame(0, None, "", None, None, "", "")

\* What an operation returned: the value of start_transaction (None for the
\* operations that return nothing) and the status of the result a handler
\* returned ("" when no handler ran).
Return(v, st) == [value |-> v, reply |-> st]

NoReturn == Return(None, "")

\* --------------------------------------------------- central_system.py

\* The actions CentralSystem registers a handler for with @on(...).
CSRouteMap ==
    {"Authorize", "BootNotification", "CancelReservation", "ChangeAvailability",
     "ChangeConfiguration", "ClearCache", "ClearChargingProfile", "DataTransfer",
     "DiagnosticsStatusNotification", "FirmwareStatusNotification",
     "GetConfiguration", "GetDiagnostics", "GetLocalListVersion", "Heartbeat",
     "MeterValues", "RemoteStartTransaction", "RemoteStopTransaction",
     "ReserveNow", "Reset", "SendLocalList", "SetChargingProfile",
     "StartTransaction", "StatusNotification", "StopTransaction",
     "TriggerMessage", "UnlockConnector", "UpdateFirmware"}

\* The handlers whose result carries status Accepted (or id_tag_info.status).
CSAcceptedActions ==
    {"Authorize", "BootNotification", "CancelReservation", "ChangeAvailability",
     "ChangeConfiguration", "ClearCache", "ClearChargingProfile", "DataTransfer",
     "RemoteStartTransaction", "RemoteStopTransaction", "ReserveNow", "Reset",
     "SendLocalList", "SetChargingProfile", "StopTransaction", "TriggerMessage"}

\* on_start_transaction: always transaction_id=1 and Accepted, whatever the
\* connector and whatever was started before.
on_start_transaction(m) == CallResult(m, CsTransactionId, "Accepted")

\* on_stop_transaction: always Accepted, whatever transaction_id names.
on_stop_transaction(m) == CallResult(m, None, "Accepted")

\* A BootNotification result with the given status and interval.
BootResult(m, st, iv) == [CallResult(m, None, st) EXCEPT !.interval = iv]

\* on_boot_notification: always Accepted with interval=60.
on_boot_notification(m) == BootResult(m, "Accepted", CsInterval)

\* The payload each handler returns.
CSHandler(m) ==
    CASE m.action = "StartTransaction" -> on_start_transaction(m)
      [] m.action = "BootNotification" -> on_boot_notification(m)
      [] m.action = "StopTransaction" -> on_stop_transaction(m)
      [] m.action = "UnlockConnector" -> CallResult(m, None, "Unlocked")
      [] m.action \in CSAcceptedActions -> CallResult(m, None, "Accepted")
      [] OTHER -> CallResult(m, None, "")

\* CentralSystem(...).start() on one inbound Call: the handler's result as a
\* CallResult, or a CallError NotImplemented when route_map has no handler.
CSRouteMessage(m) ==
    IF m.action \in CSRouteMap THEN CSHandler(m) ELSE CallError(m, "NotImplemented")

\* ----------------------------------------------------------------- state

\* The tasks of one charge-point session: "rd" is charge_point.start(), the
\* read loop, which also runs the handler of the Call it has read; the others
\* are application tasks that invoke start_transaction / stop_transaction.
\* "hb" is send_boot_notification_and_heartbeat, which main runs beside
\* start().
AppTasks == {"app"}
\* Two application tasks that invoke start_transaction side by side.
OverlapTasks == {"app", "app2"}
Tasks == {"rd", "hb"} \cup AppTasks \cup OverlapTasks

\* The transactionId arguments tried for a stop: the one the central system
\* assigns and one it never assigns.
TxIds == {CsTransactionId, CsTransactionId + 1}

\* The websocket sessions of the broadcast server (ocpp_api.py).
Sessions == {"a", "b", "c"}

\* The local unique_id of websocket_endpoint before its first assignment.
Unbound == -2

\* A raw text frame: whether json.loads accepts it, and the elements of the
\* JSON array it then yields.  Unique ids are integers, actions and error
\* codes strings, a payload is "{}" (satisfies the request model of its
\* action) or "{bad}" (does not).
RawFrame(json, elems) == [json |-> json, elems |-> elems]

NoData == RawFrame(FALSE, <<>>)

\* A frame the server wrote: the session it was written to, the frame, the
\* session whose inbound frame `cause` it was written for, and whether it is
\* the reply to that frame or a forwarded copy of it.
Delivery(to, f, origin, reply, cause) ==
    [to |-> to, f |-> f, origin |-> origin, reply |-> reply, cause |-> cause]

NoDelivery == Delivery("", NoData, "", FALSE, NoData)

VARIABLES
    status,            \* MyChargePoint.status
    transaction_id,    \* MyChargePoint.transaction_id
    pc,                \* per task: "idle", "lock" (queued for the call lock), "wait" (awaiting a reply),
                       \* "sleep" (asyncio.sleep), "ended" (returned or raised), "cancelled"
    at,                \* per task: the self.call site it is suspended in
    req,               \* per task: the request of that call
    wid,               \* per task: the unique id whose reply it awaits
    cur,               \* per task: the inbound Call whose handler it runs
    call_lock,         \* the library's call lock: its holder, then the tasks queued for it
    respQ,             \* the library's response queue: results read and not yet taken
    nextId,            \* the next unique id call() draws
    toCS,              \* frames written by the charge point, not yet read by the central system
    toCP,              \* frames written by the central system, not yet read by the charge point
    csTransactions,    \* history: the transactions the central system accepted, and whether a stop was accepted since
    lastAvailability,  \* history: type of the last ChangeAvailability handled
    opCount,           \* Calls sent by the operator
    appCount,          \* invocations made by the application
    ret,               \* per task: what the operation it ran last returned (start_transaction's value, the handler's status)
    connOpen,          \* the websocket of the charge point is open
    beats,             \* times the sleep of send_heartbeat has ended
    clientPc,          \* ocpp_client.py: position of main ("start": awaiting cp.start(), "failed": in its except)
    tIdx,              \* test client: index into TEST_MESSAGES
    tPc,               \* test client: "send", "recv", "sleep", "done"
    tToServer,         \* test session: frames written by the client
    tToClient,         \* test session: frames written by the central system
    testLog,           \* test client: the frame received after each message
    connected_clients, \* ocpp_api.py: the list of connected websockets, by session
    hpc,               \* per session: position of websocket_endpoint ("off", "recv", "bcast", "done")
    bi,                \* per session: index the `for client in connected_clients` iterator fetches next
    data,              \* per session: the raw frame being processed
    unique_id,         \* per session: the local unique_id of websocket_endpoint
    lastWrite,         \* history: the frame the server wrote in the last step, and to whom
    wsOpen,            \* per session: the peer has not closed the connection
    pending,           \* per session: unique id of the Call the peer awaits the reply to
    sent,              \* frames written by the peers
    closes,            \* connections closed by the peers
    ccAtRecv,          \* history, per session: connected_clients when the current frame was received
    ccChanged,         \* history, per session: connected_clients changed since the current frame was received
    fwdTo,             \* history, per session: the sessions the current frame was forwarded to
    failedTo           \* history, per session: the sessions a forward of the current frame failed for

sessVars == <<connOpen, beats, clientPc>>
cpVars == <<status, transaction_id, pc, at, req, wid, cur, call_lock, respQ,
            nextId, toCS, toCP, csTransactions, lastAvailability, opCount, appCount,
            ret, sessVars>>
testVars == <<tIdx, tPc, tToServer, tToClient, testLog>>
apiVars == <<connected_clients, hpc, bi, data, unique_id, lastWrite, wsOpen,
             pending, sent, closes, ccAtRecv, ccChanged, fwdTo, failedTo>>
vars == <<cpVars, testVars, apiVars>>

\* -------------------------------------------------------- csms.py: calls

StatusNotificationRequest(s) == Request("StatusNotification", ConnectorId, None, s)
StartTransactionRequest == Request("StartTransaction", ConnectorId, None, "")
StopTransactionRequest(x) == Request("StopTransaction", None, x, "")
BootNotificationRequest == Request("BootNotification", None, None, "")
HeartbeatRequest == Request("Heartbeat", None, None, "")

\* The call sites: "st" and "sp" are the calls of start_transaction and
\* stop_transaction, "st_sn" and "sp_sn" the send_status_notification that
\* follows each, "sn" the send_status_notification of a handler.
HasId(site) == site \in {"st_sn", "sp_sn"} \/ nextId <= MaxCalls

\* A task that leaves with the unique id of its call still set.
Leave_KeepsId(t, lk, p) ==
    /\ call_lock' = lk
    /\ pc' = [pc EXCEPT ![t] = p]
    /\ at' = [at EXCEPT ![t] = ""]
    /\ req' = [req EXCEPT ![t] = NoFrame]
    /\ wid' = wid
    /\ cur' = [cur EXCEPT ![t] = NoFrame]
    /\ nextId' = nextId

\* Task t leaves the code it ran and is at p from now on.
Leave(t, lk, p) ==
    /\ call_lock' = lk
    /\ pc' = [pc EXCEPT ![t] = p]
    /\ at' = [at EXCEPT ![t] = ""]
    /\ req' = [req EXCEPT ![t] = NoFrame]
    /\ wid' = [wid EXCEPT ![t] = None]
    /\ cur' = [cur EXCEPT ![t] = NoFrame]
    /\ nextId' = nextId

\* Task t leaves the operation it ran.  In the read loop the operation is the
\* handler of Call c: its result is written as a CallResult and the loop goes
\* back to reading; on a closed connection the write raises ConnectionClosed
\* and start() ends with it.
Finish(t, lk, c, v, replyStatus) ==
    /\ Leave(t, lk, IF t = "rd" /\ ~connOpen THEN "ended" ELSE "idle")
    /\ ret' = [ret EXCEPT ![t] = Return(v, IF c = NoFrame THEN "" ELSE replyStatus)]
    /\ toCS' = IF t = "rd" /\ connOpen
               THEN Append(toCS, CallResult(c, None, replyStatus))
               ELSE toCS

\* send_heartbeat goes to `await asyncio.sleep(interval)`.
HbSleep(t, lk) == Leave(t, lk, "sleep") /\ UNCHANGED <<toCS, ret>>

\* send_boot_notification_and_heartbeat returns.
HbReturn(t, lk) == Leave(t, lk, "ended") /\ UNCHANGED <<toCS, ret>>

\* start_transaction with 0 in the place of None.
ReturnFromStart_ZeroForNone(t, lk, c, v) ==
    Finish(t, lk, c, IF v = None THEN 0 ELSE v,
           IF Truthy(v) THEN "Accepted" ELSE "Rejected")

\* start_transaction returns v; on_remote_start_transaction answers
\* 'Accepted' if transaction_id else 'Rejected'.
ReturnFromStart(t, lk, c, v) ==
    Finish(t, lk, c, v, IF Truthy(v) THEN "Accepted" ELSE "Rejected")

\* stop_transaction returns; on_remote_stop_transaction answers Accepted.
ReturnFromStop(t, lk, c) == Finish(t, lk, c, None, "Accepted")

\* A failed write that ends send_heartbeat.
CallFails_EndsLoop(t, lk, site, c) ==
    CASE site = "st" -> ReturnFromStart(t, lk, c, None)
      [] site = "st_sn" -> ReturnFromStart(t, lk, c, transaction_id')
      [] site \in {"sp", "sp_sn"} -> ReturnFromStop(t, lk, c)
      [] site = "sn" -> Finish(t, lk, c, None, "Accepted")
      [] site \in {"boot", "hb"} -> HbReturn(t, lk)
      [] site = "boot_sn" -> HbSleep(t, lk)

\* self.call at call site `site` raises before it awaits anything (the write
\* on the closed connection raises ConnectionClosed): the `except Exception`
\* of the caller logs it and the caller goes on.  start_transaction returns
\* None from its own call and self.transaction_id after the
\* send_status_notification; send_boot_notification returns None, which ends
\* the task; after the StatusNotification of the task the first Heartbeat of
\* send_heartbeat fails the same way.
CallFails(t, lk, site, c) ==
    CASE site = "st" -> ReturnFromStart(t, lk, c, None)
      [] site = "st_sn" -> ReturnFromStart(t, lk, c, transaction_id')
      [] site \in {"sp", "sp_sn"} -> ReturnFromStop(t, lk, c)
      [] site = "sn" -> Finish(t, lk, c, None, "Accepted")
      [] site = "boot" -> HbReturn(t, lk)
      [] site \in {"boot_sn", "hb"} -> HbSleep(t, lk)

\* call() without its lock: the Call is written at once.
SendCall_NoLock(t, lk, site, r, c) ==
    IF connOpen
    THEN /\ HasId(site)
         /\ call_lock' = <<t>> \o lk
         /\ toCS' = Append(toCS, [r EXCEPT !.id = nextId])
         /\ nextId' = nextId + 1
         /\ pc' = [pc EXCEPT ![t] = "wait"]
         /\ wid' = [wid EXCEPT ![t] = nextId]
         /\ at' = [at EXCEPT ![t] = site]
         /\ req' = [req EXCEPT ![t] = r]
         /\ cur' = [cur EXCEPT ![t] = c]
         /\ ret' = ret
    ELSE CallFails(t, lk, site, c)

\* await self.call(r) at call site `site` by task t, lk being the call lock as
\* the step finds it: with the lock free the Call is written under a fresh
\* unique id and t awaits the reply (on a closed connection the write
\* raises); otherwise t queues for the lock.
SendCall(t, lk, site, r, c) ==
    IF lk = <<>> /\ ~connOpen
    THEN CallFails(t, lk, site, c)
    ELSE /\ IF lk = <<>>
            THEN /\ HasId(site)
                 /\ call_lock' = <<t>>
                 /\ toCS' = Append(toCS, [r EXCEPT !.id = nextId])
                 /\ nextId' = nextId + 1
                 /\ pc' = [pc EXCEPT ![t] = "wait"]
                 /\ wid' = [wid EXCEPT ![t] = nextId]
            ELSE /\ call_lock' = Append(lk, t)
                 /\ pc' = [pc EXCEPT ![t] = "lock"]
                 /\ UNCHANGED <<toCS, nextId, wid>>
         /\ at' = [at EXCEPT ![t] = site]
         /\ req' = [req EXCEPT ![t] = r]
         /\ cur' = [cur EXCEPT ![t] = c]
         /\ ret' = ret

\* start_transaction with a guard that only refuses an Unavailable connector.
start_transaction_GuardsUnavailableOnly(t, lk, c) ==
    IF status = "Unavailable"
    THEN ReturnFromStart(t, lk, c, None)
    ELSE SendCall(t, lk, "st", StartTransactionRequest, c)

\* start_transaction up to its first suspension.
start_transaction(t, lk, c) ==
    IF status # "Available"
    THEN ReturnFromStart(t, lk, c, None)
    ELSE SendCall(t, lk, "st", StartTransactionRequest, c)

\* stop_transaction up to its first suspension.
stop_transaction(t, lk, c, x) ==
    SendCall(t, lk, "sp", StopTransactionRequest(x), c)

\* The code after `await self.call(...)` at the site task t is suspended in,
\* r being the reply (NoFrame when call raised: timeout).  A CallError makes
\* call return None.  The call lock is released on leaving call.
Continue(t, r) ==
    LET lk == Tail(call_lock)
        c == cur[t]
        accepted == r.mtype = 3 /\ r.status = "Accepted"
    IN  CASE at[t] = "st" ->
               IF accepted
               THEN /\ transaction_id' = r.transactionId
                    /\ status' = "Charging"
                    /\ SendCall(t, lk, "st_sn", StatusNotificationRequest("Charging"), c)
               ELSE /\ UNCHANGED <<status, transaction_id>>
                    /\ ReturnFromStart(t, lk, c, None)
          [] at[t] = "st_sn" ->
               /\ UNCHANGED <<status, transaction_id>>
               /\ ReturnFromStart(t, lk, c, transaction_id)
          [] at[t] = "sp" ->
               IF accepted
               THEN /\ transaction_id' = None
                    /\ status' = "Available"
                    /\ SendCall(t, lk, "sp_sn", StatusNotificationRequest("Available"), c)
               ELSE /\ UNCHANGED <<status, transaction_id>>
                    /\ ReturnFromStop(t, lk, c)
          [] at[t] = "sp_sn" ->
               /\ UNCHANGED <<status, transaction_id>>
               /\ ReturnFromStop(t, lk, c)
          [] at[t] = "sn" ->
               /\ UNCHANGED <<status, transaction_id>>
               /\ Finish(t, lk, c, None, "Accepted")
          [] at[t] = "boot" ->
               /\ UNCHANGED <<status, transaction_id>>
               /\ IF accepted /\ Truthy(r.interval)
                  THEN SendCall(t, lk, "boot_sn", StatusNotificationRequest(status), c)
                  ELSE HbReturn(t, lk)
          [] at[t] = "boot_sn" ->
               /\ UNCHANGED <<status, transaction_id>>
               /\ SendCall(t, lk, "hb", HeartbeatRequest, c)
          [] at[t] = "hb" ->
               /\ UNCHANGED <<status, transaction_id>>
               /\ HbSleep(t, lk)

\* ----------------------------------------------------- csms.py: handlers

on_reset(m) ==
    IF m.type = "Soft"
    THEN /\ status' = "Available"
         /\ UNCHANGED transaction_id
         /\ SendCall("rd", call_lock, "sn", StatusNotificationRequest("Available"), m)
    ELSE /\ UNCHANGED <<status, transaction_id>>
         /\ Finish("rd", call_lock, m, None, "Accepted")

on_change_availability(m) ==
    LET s == IF m.type = "Operative" THEN "Available" ELSE "Unavailable"
    IN  /\ status' = s
        /\ UNCHANGED transaction_id
        /\ SendCall("rd", call_lock, "sn", StatusNotificationRequest(s), m)

on_remote_start_transaction(m) ==
    /\ UNCHANGED <<status, transaction_id>>
    /\ start_transaction("rd", call_lock, m)

on_remote_stop_transaction(m) ==
    /\ UNCHANGED <<status, transaction_id>>
    /\ IF transaction_id = m.transactionId
       THEN stop_transaction("rd", call_lock, m, m.transactionId)
       ELSE Finish("rd", call_lock, m, None, "Rejected")

\* ------------------------------------------------------- csms.py: tasks

\* charge_point.start(): the read loop takes the next frame.  A Call is routed
\* to its handler, which runs inside the loop; a CallResult or CallError goes
\* to the response queue.
Recv ==
    /\ pc["rd"] = "idle"
    /\ toCP # <<>>
    /\ LET m == Head(toCP)
       IN  /\ toCP' = Tail(toCP)
           /\ lastAvailability' =
                 IF m.mtype = 2 /\ m.action = "ChangeAvailability" THEN m.type
                 ELSE lastAvailability
           /\ IF m.mtype # 2
              THEN /\ respQ' = Append(respQ, m)
                   /\ UNCHANGED <<status, transaction_id, pc, at, req, wid, cur,
                                  call_lock, nextId, toCS, ret>>
              ELSE /\ respQ' = respQ
                   /\ CASE m.action = "Reset" -> on_reset(m)
                        [] m.action = "ChangeAvailability" -> on_change_availability(m)
                        [] m.action = "RemoteStartTransaction" -> on_remote_start_transaction(m)
                        [] m.action = "RemoteStopTransaction" -> on_remote_stop_transaction(m)
    /\ UNCHANGED <<csTransactions, opCount, appCount, sessVars, testVars, apiVars>>

\* A task queued for the call lock is granted it and writes its Call (on a
\* closed connection the write raises).
LockAcquired(t) ==
    /\ pc[t] = "lock"
    /\ Head(call_lock) = t
    /\ UNCHANGED <<status, transaction_id, respQ, toCP, csTransactions,
                   lastAvailability, opCount, appCount, sessVars, testVars, apiVars>>
    /\ IF connOpen
       THEN /\ HasId(at[t])
            /\ toCS' = Append(toCS, [req[t] EXCEPT !.id = nextId])
            /\ nextId' = nextId + 1
            /\ pc' = [pc EXCEPT ![t] = "wait"]
            /\ wid' = [wid EXCEPT ![t] = nextId]
            /\ UNCHANGED <<at, req, cur, call_lock, ret>>
       ELSE CallFails(t, Tail(call_lock), at[t], cur[t])

\* The awaiting task takes the next result off the response queue: the reply
\* to its Call resumes it, any other result is dropped.
GetResponse(t) ==
    /\ pc[t] = "wait"
    /\ respQ # <<>>
    /\ respQ' = Tail(respQ)
    /\ IF Head(respQ).id = wid[t]
       THEN Continue(t, Head(respQ))
       ELSE UNCHANGED <<status, transaction_id, pc, at, req, wid, cur, call_lock,
                        nextId, toCS, ret>>
    /\ UNCHANGED <<toCP, csTransactions, lastAvailability, opCount, appCount, sessVars, testVars, apiVars>>

\* The awaited reply does not come in time (the response queue stays empty
\* until the deadline): call raises, the caller's `except Exception` takes over.
Timeout(t) ==
    /\ pc[t] = "wait"
    /\ respQ = <<>>
    /\ Continue(t, NoFrame)
    /\ UNCHANGED <<respQ, toCP, csTransactions, lastAvailability, opCount, appCount, sessVars, testVars, apiVars>>

\* The application invokes start_transaction(id_tag).
AppStartTransaction(t) ==
    /\ pc[t] = "idle"
    /\ appCount < MaxApp
    /\ appCount' = appCount + 1
    /\ start_transaction(t, call_lock, NoFrame)
    /\ UNCHANGED <<status, transaction_id, respQ, toCP, csTransactions, lastAvailability,
                   opCount, sessVars, testVars, apiVars>>

\* The application invokes stop_transaction(transaction_id, id_tag).
AppStopTransaction(t, x) ==
    /\ pc[t] = "idle"
    /\ appCount < MaxApp
    /\ appCount' = appCount + 1
    /\ stop_transaction(t, call_lock, NoFrame, x)
    /\ UNCHANGED <<status, transaction_id, respQ, toCP, csTransactions, lastAvailability,
                   opCount, sessVars, testVars, apiVars>>

\* ------------------------------------------------- the central system's side

\* The Calls an operator of the central system can send to the charge point:
\* the ones MyChargePoint's handlers change state on.
OperatorCalls ==
    {CallFrame(None, "Reset", None, None, "", ty) : ty \in {"Soft", "Hard"}}
    \cup {CallFrame(None, "ChangeAvailability", ConnectorId, None, "", ty) :
            ty \in {"Operative", "Inoperative"}}
    \cup {CallFrame(None, "RemoteStartTransaction", ConnectorId, None, "", "")}
    \cup {CallFrame(None, "RemoteStopTransaction", None, x, "", "") : x \in TxIds}

\* The operator has no Call unanswered: the central system, like the charge
\* point, sends its next Call once the previous one was answered.
OperatorIdle ==
    /\ \A i \in 1..Len(toCP) : toCP[i].mtype # 2
    /\ cur["rd"] = NoFrame
    /\ \A i \in 1..Len(toCS) : toCS[i].mtype # 3

OperatorCall(m) ==
    /\ connOpen
    /\ opCount < MaxOps
    /\ OperatorIdle
    /\ opCount' = opCount + 1
    /\ toCP' = Append(toCP, [m EXCEPT !.id = 100 + opCount])
    /\ UNCHANGED <<status, transaction_id, pc, at, req, wid, cur, call_lock, respQ,
                   nextId, toCS, csTransactions, lastAvailability, appCount, ret, sessVars, testVars, apiVars>>

\* CentralSystem.start() takes the next frame of the session: a Call is
\* answered by its handler, a result of the charge point is consumed.
CSHandle ==
    /\ toCS # <<>>
    /\ toCS' = Tail(toCS)
    /\ LET m == Head(toCS)
           r == CSRouteMessage(m)
       IN  IF m.mtype = 2
           THEN /\ toCP' = Append(toCP, r)
                /\ csTransactions' =
                      CASE m.action = "StartTransaction" /\ r.status = "Accepted" ->
                             Append(csTransactions,
                                    [connectorId |-> m.connectorId,
                                     transactionId |-> r.transactionId,
                                     open |-> TRUE])
                        [] m.action = "StopTransaction" /\ r.status = "Accepted" ->
                             [i \in 1..Len(csTransactions) |->
                                IF csTransactions[i].transactionId = m.transactionId
                                THEN [csTransactions[i] EXCEPT !.open = FALSE]
                                ELSE csTransactions[i]]
                        [] OTHER -> csTransactions
           ELSE UNCHANGED <<toCP, csTransactions>>
    /\ UNCHANGED <<status, transaction_id, pc, at, req, wid, cur, call_lock, respQ,
                   nextId, lastAvailability, opCount, appCount, ret, sessVars, testVars, apiVars>>

\* ------------------------------------------------------------ specification

Init ==
    /\ status = "Available"
    /\ transaction_id = None
    /\ pc = [t \in Tasks |-> "idle"]
    /\ at = [t \in Tasks |-> ""]
    /\ req = [t \in Tasks |-> NoFrame]
    /\ wid = [t \in Tasks |-> None]
    /\ cur = [t \in Tasks |-> NoFrame]
    /\ call_lock = <<>>
    /\ respQ = <<>>
    /\ nextId = 1
    /\ toCS = <<>>
    /\ toCP = <<>>
    /\ csTransactions = <<>>
    /\ lastAvailability = ""
    /\ opCount = 0
    /\ appCount = 0
    /\ ret = [t \in Tasks |-> NoReturn]
    /\ connOpen = TRUE
    /\ beats = 0
    /\ clientPc = "start"
    /\ tIdx = 1
    /\ tPc = "send"
    /\ tToServer = <<>>
    /\ tToClient = <<>>
    /\ testLog = <<>>
    /\ connected_clients = <<>>
    /\ hpc = [s \in Sessions |-> "off"]
    /\ bi = [s \in Sessions |-> 1]
    /\ data = [s \in Sessions |-> NoData]
    /\ unique_id = [s \in Sessions |-> Unbound]
    /\ lastWrite = NoDelivery
    /\ wsOpen = [s \in Sessions |-> FALSE]
    /\ pending = [s \in Sessions |-> None]
    /\ sent = 0
    /\ closes = 0
    /\ ccAtRecv = [s \in Sessions |-> <<>>]
    /\ ccChanged = [s \in Sessions |-> FALSE]
    /\ fwdTo = [s \in Sessions |-> <<>>]
    /\ failedTo = [s \in Sessions |-> {}]

Next ==
    \/ Recv
    \/ CSHandle
    \/ \E m \in OperatorCalls : OperatorCall(m)
    \/ \E t \in Tasks : LockAcquired(t)
    \/ \E t \in Tasks : GetResponse(t)
    \/ \E t \in Tasks : Timeout(t)
    \/ \E t \in AppTasks : AppStartTransaction(t)
    \/ \E t \in AppTasks, x \in TxIds : AppStopTransaction(t, x)

Spec == Init /\ [][Next]_vars

\* ------------------------------------------------- csms.py: main
\*
\* SpecSession: main runs start() and send_boot_notification_and_heartbeat
\* with asyncio.gather on one connection, which the central system answers
\* on and which closes at any time.

\* send_boot_notification_and_heartbeat starts: the BootNotification call.
HbStart ==
    /\ pc["hb"] = "idle"
    /\ SendCall("hb", call_lock, "boot", BootNotificationRequest, NoFrame)
    /\ UNCHANGED <<status, transaction_id, respQ, toCP, csTransactions,
                   lastAvailability, opCount, appCount, sessVars, testVars, apiVars>>

\* asyncio.sleep(interval) of send_heartbeat ends: the next Heartbeat call.
HbTimer ==
    /\ pc["hb"] = "sleep"
    /\ beats < MaxBeats
    /\ beats' = beats + 1
    /\ SendCall("hb", call_lock, "hb", HeartbeatRequest, NoFrame)
    /\ UNCHANGED <<status, transaction_id, respQ, toCP, csTransactions,
                   lastAvailability, opCount, appCount, connOpen, clientPc,
                   testVars, apiVars>>

\* The connection closes: what the charge point wrote and the central system
\* has not read is lost; what the central system wrote can still be read.
ConnClose ==
    /\ connOpen
    /\ connOpen' = FALSE
    /\ toCS' = <<>>
    /\ UNCHANGED <<status, transaction_id, pc, at, req, wid, cur, call_lock, respQ,
                   nextId, toCP, csTransactions, lastAvailability, opCount,
                   appCount, beats, clientPc, ret, testVars, apiVars>>

\* recv() of start() raises ConnectionClosed: the read loop ends, and gather
\* passes the exception on to main.
StartRaises ==
    /\ pc["rd"] = "idle"
    /\ toCP = <<>>
    /\ ~connOpen
    /\ pc' = [pc EXCEPT !["rd"] = "ended"]
    /\ UNCHANGED <<status, transaction_id, at, req, wid, cur, call_lock, respQ,
                   nextId, toCS, toCP, csTransactions, lastAvailability, opCount,
                   appCount, ret, sessVars, testVars, apiVars>>

\* main leaves `async with`, logs "Connection failed" and returns; asyncio.run
\* cancels the task gather has left running, wherever it is suspended.
MainExit ==
    /\ pc["rd"] = "ended"
    /\ pc["hb"] \notin {"ended", "cancelled"}
    /\ pc' = [pc EXCEPT !["hb"] = "cancelled"]
    /\ at' = [at EXCEPT !["hb"] = ""]
    /\ req' = [req EXCEPT !["hb"] = NoFrame]
    /\ wid' = [wid EXCEPT !["hb"] = None]
    /\ call_lock' = SelectSeq(call_lock, LAMBDA t : t # "hb")
    /\ UNCHANGED <<status, transaction_id, cur, respQ, nextId, toCS, toCP,
                   csTransactions, lastAvailability, opCount, appCount,
                   ret, sessVars, testVars, apiVars>>

\* The Calls the central system sends in SpecSession.
SessionCalls ==
    {CallFrame(None, "ChangeAvailability", ConnectorId, None, "", "Inoperative"),
     CallFrame(None, "RemoteStartTransaction", ConnectorId, None, "", "")}

NextSession ==
    \/ HbStart
    \/ HbTimer
    \/ Recv
    \/ CSHandle
    \/ \E m \in SessionCalls : OperatorCall(m)
    \/ \E t \in Tasks : LockAcquired(t)
    \/ \E t \in Tasks : GetResponse(t)
    \/ \E t \in Tasks : Timeout(t)
    \/ ConnClose
    \/ StartRaises
    \/ MainExit

SpecSession == Init /\ [][NextSession]_vars

\* What the event loop guarantees: asyncio.sleep(interval) ends, a call ends
\* by its reply or by its timeout, and the call lock goes to the task that
\* waits for it first.
SessionFairness ==
    /\ WF_vars(HbTimer)
    /\ \A t \in Tasks : WF_vars(LockAcquired(t))
    /\ \A t \in Tasks : WF_vars(GetResponse(t))
    /\ \A t \in Tasks : WF_vars(Timeout(t))

SpecHeartbeat == SpecSession /\ SessionFairness

\* ------------------------------------- csms.py: the boot sequence
\*
\* SpecBoot: send_boot_notification_and_heartbeat against a central system
\* that answers the BootNotification in any way the protocol allows, and
\* sends Calls of its own.

\* The registration statuses and the intervals of a BootNotification result.
BootStatuses == {"Accepted", "Pending", "Rejected"}
BootIntervals == {CsInterval, 0, 0 - CsInterval}

\* A central system answers the BootNotification with status st and interval iv.
CSAnswerBoot(st, iv) ==
    /\ toCS # <<>>
    /\ Head(toCS).mtype = 2
    /\ Head(toCS).action = "BootNotification"
    /\ toCS' = Tail(toCS)
    /\ toCP' = Append(toCP, BootResult(Head(toCS), st, iv))
    /\ UNCHANGED <<status, transaction_id, pc, at, req, wid, cur, call_lock, respQ,
                   nextId, csTransactions, lastAvailability, opCount, appCount,
                   ret, sessVars, testVars, apiVars>>

\* A central system answers the BootNotification with a CallError.
CSRefuseBoot ==
    /\ toCS # <<>>
    /\ Head(toCS).mtype = 2
    /\ Head(toCS).action = "BootNotification"
    /\ toCS' = Tail(toCS)
    /\ toCP' = Append(toCP, CallError(Head(toCS), "InternalError"))
    /\ UNCHANGED <<status, transaction_id, pc, at, req, wid, cur, call_lock, respQ,
                   nextId, csTransactions, lastAvailability, opCount, appCount,
                   ret, sessVars, testVars, apiVars>>

NextBoot ==
    \/ HbStart
    \/ HbTimer
    \/ Recv
    \/ CSHandle
    \/ \E st \in BootStatuses, iv \in BootIntervals : CSAnswerBoot(st, iv)
    \/ CSRefuseBoot
    \/ \E m \in SessionCalls : OperatorCall(m)
    \/ \E t \in Tasks : LockAcquired(t)
    \/ \E t \in Tasks : GetResponse(t)
    \/ \E t \in Tasks : Timeout(t)

SpecBoot == Init /\ [][NextBoot]_vars

\* ------------------------------------- csms.py: starting a transaction
\*
\* SpecStart: start_transaction and on_remote_start_transaction invoked by
\* application tasks, beside the read loop, against a central system that
\* answers the StartTransaction in any way the protocol allows.

\* The Call on_remote_start_transaction is invoked for.
RemoteStartCall == CallFrame(None, "RemoteStartTransaction", ConnectorId, None, "", "")

\* The application invokes on_remote_start_transaction(id_tag).
AppRemoteStart(t) ==
    /\ pc[t] = "idle"
    /\ appCount < MaxApp
    /\ appCount' = appCount + 1
    /\ start_transaction(t, call_lock, RemoteStartCall)
    /\ UNCHANGED <<status, transaction_id, respQ, toCP, csTransactions, lastAvailability,
                   opCount, sessVars, testVars, apiVars>>

\* The idTagInfo statuses and the transaction ids of a StartTransaction result.
StartStatuses == {"Accepted", "Invalid"}
StartTxIds == {CsTransactionId, 0}

\* A central system answers the StartTransaction with idTagInfo status st
\* and transaction id x.
CSAnswerStart(st, x) ==
    /\ toCS # <<>>
    /\ Head(toCS).mtype = 2
    /\ Head(toCS).action = "StartTransaction"
    /\ toCS' = Tail(toCS)
    /\ toCP' = Append(toCP, CallResult(Head(toCS), x, st))
    /\ UNCHANGED <<status, transaction_id, pc, at, req, wid, cur, call_lock, respQ,
                   nextId, csTransactions, lastAvailability, opCount, appCount,
                   ret, sessVars, testVars, apiVars>>

\* A central system answers the StartTransaction with a CallError.
CSRefuseStart ==
    /\ toCS # <<>>
    /\ Head(toCS).mtype = 2
    /\ Head(toCS).action = "StartTransaction"
    /\ toCS' = Tail(toCS)
    /\ toCP' = Append(toCP, CallError(Head(toCS), "InternalError"))
    /\ UNCHANGED <<status, transaction_id, pc, at, req, wid, cur, call_lock, respQ,
                   nextId, csTransactions, lastAvailability, opCount, appCount,
                   ret, sessVars, testVars, apiVars>>

NextStart ==
    \/ \E t \in OverlapTasks : AppStartTransaction(t)
    \/ \E t \in OverlapTasks : AppRemoteStart(t)
    \/ Recv
    \/ CSHandle
    \/ \E st \in StartStatuses, x \in StartTxIds : CSAnswerStart(st, x)
    \/ CSRefuseStart
    \/ \E t \in Tasks : LockAcquired(t)
    \/ \E t \in Tasks : GetResponse(t)
    \/ \E t \in Tasks : Timeout(t)

SpecStart == Init /\ [][NextStart]_vars

\* ------------------------------------- csms.py: overlapping invocations
\*
\* SpecOverlap: two tasks invoke start_transaction on one MyChargePoint while
\* the read loop serves the connection and the central system answers.

NextOverlap ==
    \/ \E t \in OverlapTasks : AppStartTransaction(t)
    \/ Recv
    \/ CSHandle
    \/ \E t \in Tasks : LockAcquired(t)
    \/ \E t \in Tasks : GetResponse(t)
    \/ \E t \in Tasks : Timeout(t)

SpecOverlap == Init /\ [][NextOverlap]_vars

\* ------------------------------------------------- ocpp_client.py: main
\*
\* SpecClient: main of ocpp_client.py on the connection it has established.
\* ChargePointClient registers no handler.  `await cp.start()` is the read
\* loop of the ocpp library, which returns to its caller in no case: it ends
\* when recv() or a write raises on the closed connection, and the exception
\* passes the calls that follow it in main and is caught by `except Exception`.

\* cp.start() takes the next frame: a Call finds no handler and is answered
\* with a CallError NotImplemented, a result goes to the response queue.
ClientRecv ==
    /\ clientPc = "start"
    /\ toCP # <<>>
    /\ toCP' = Tail(toCP)
    /\ LET m == Head(toCP)
       IN  IF m.mtype = 2
           THEN /\ toCS' = IF connOpen
                           THEN Append(toCS, CallError(m, "NotImplemented"))
                           ELSE toCS
                /\ clientPc' = IF connOpen THEN "start" ELSE "failed"
                /\ UNCHANGED respQ
           ELSE /\ respQ' = Append(respQ, m)
                /\ UNCHANGED <<toCS, clientPc>>
    /\ UNCHANGED <<status, transaction_id, pc, at, req, wid, cur, call_lock,
                   nextId, csTransactions, lastAvailability, opCount, appCount,
                   connOpen, beats, ret, testVars, apiVars>>

\* recv() of cp.start() raises ConnectionClosed: main goes to its except
\* clause, past send_boot_notification, send_heartbeat and the sleep.
ClientStartRaises ==
    /\ clientPc = "start"
    /\ toCP = <<>>
    /\ ~connOpen
    /\ clientPc' = "failed"
    /\ UNCHANGED <<status, transaction_id, pc, at, req, wid, cur, call_lock, respQ,
                   nextId, toCS, toCP, csTransactions, lastAvailability, opCount,
                   appCount, connOpen, beats, ret, testVars, apiVars>>

\* The frames the server side writes to the client: Calls, and a result the
\* client has no call pending for.
ServerFrames ==
    OperatorCalls \cup {Frame(3, None, "Heartbeat", None, None, "", "")}

\* The server writes a frame, whether or not its last one was answered.
ServerSend(m) ==
    /\ connOpen
    /\ opCount < MaxOps
    /\ opCount' = opCount + 1
    /\ toCP' = Append(toCP, [m EXCEPT !.id = 100 + opCount])
    /\ UNCHANGED <<status, transaction_id, pc, at, req, wid, cur, call_lock, respQ,
                   nextId, toCS, csTransactions, lastAvailability, appCount,
                   ret, sessVars, testVars, apiVars>>

NextClient ==
    \/ ClientRecv
    \/ ClientStartRaises
    \/ \E m \in ServerFrames : ServerSend(m)
    \/ CSHandle
    \/ ConnClose

SpecClient == Init /\ [][NextClient]_vars

\* ------------------------------------------------- ocpp_client_test.py

\* TEST_MESSAGES: unique id, action and the payload fields the model keeps.
TEST_MESSAGES ==
    << CallFrame(12345, "Authorize", None, None, "", ""),
       CallFrame(12346, "BootNotification", None, None, "", ""),
       CallFrame(12347, "CancelReservation", None, None, "", ""),
       CallFrame(12348, "ChangeAvailability", 1, None, "", "Operative"),
       CallFrame(12349, "ChangeConfiguration", None, None, "", ""),
       CallFrame(12350, "ClearCache", None, None, "", ""),
       CallFrame(12351, "ClearChargingProfile", 1, None, "", ""),
       CallFrame(12352, "DataTransfer", None, None, "", ""),
       CallFrame(12353, "DiagnosticsStatusNotification", None, None, "Uploaded", ""),
       CallFrame(12354, "FirmwareStatusNotification", None, None, "Downloaded", ""),
       CallFrame(12372, "GetCompositeSchedule", 1, None, "", ""),
       CallFrame(12355, "GetConfiguration", None, None, "", ""),
       CallFrame(12356, "GetDiagnostics", None, None, "", ""),
       CallFrame(12357, "GetLocalListVersion", None, None, "", ""),
       CallFrame(12358, "Heartbeat", None, None, "", ""),
       CallFrame(12359, "MeterValues", 1, 100, "", ""),
       CallFrame(12360, "RemoteStartTransaction", 1, None, "", ""),
       CallFrame(12361, "RemoteStopTransaction", None, 100, "", ""),
       CallFrame(12362, "ReserveNow", 1, None, "", ""),
       CallFrame(12363, "Reset", None, None, "", "Hard"),
       CallFrame(12364, "SendLocalList", None, None, "", "Full"),
       CallFrame(12365, "SetChargingProfile", 1, None, "", ""),
       CallFrame(12366, "StartTransaction", 1, None, "", ""),
       CallFrame(12367, "StatusNotification", 1, None, "Available", ""),
       CallFrame(12368, "StopTransaction", None, 100, "", ""),
       CallFrame(12369, "TriggerMessage", 1, None, "", ""),
       CallFrame(12370, "UnlockConnector", 1, None, "", ""),
       CallFrame(12371, "UpdateFirmware", None, None, "", "") >>

\* await websocket.send(message_json)
TestSend ==
    /\ tPc = "send"
    /\ tToServer' = Append(tToServer, TEST_MESSAGES[tIdx])
    /\ tPc' = "recv"
    /\ UNCHANGED <<tIdx, tToClient, testLog, cpVars, apiVars>>

\* CentralSystem.start() of the test session answers the next Call.
TestServe ==
    /\ tToServer # <<>>
    /\ tToServer' = Tail(tToServer)
    /\ tToClient' = Append(tToClient, CSRouteMessage(Head(tToServer)))
    /\ UNCHANGED <<tIdx, tPc, testLog, cpVars, apiVars>>

\* response = await websocket.recv(): the next frame is taken as the response
\* to the message just sent and compared with it.
TestRecv ==
    /\ tPc = "recv"
    /\ tToClient # <<>>
    /\ tToClient' = Tail(tToClient)
    /\ testLog' = Append(testLog, Head(tToClient))
    /\ tPc' = "sleep"
    /\ UNCHANGED <<tIdx, tToServer, cpVars, apiVars>>

\* await asyncio.sleep(0.5), then the next message of the loop.
TestSleep ==
    /\ tPc = "sleep"
    /\ tIdx' = IF tIdx < Len(TEST_MESSAGES) THEN tIdx + 1 ELSE tIdx
    /\ tPc' = IF tIdx < Len(TEST_MESSAGES) THEN "send" ELSE "done"
    /\ UNCHANGED <<tToServer, tToClient, testLog, cpVars, apiVars>>

NextTest == TestSend \/ TestServe \/ TestRecv \/ TestSleep

SpecTest == Init /\ [][NextTest]_vars

\* ------------------------------------------------------------ ocpp_api.py
\*
\* SpecApi: the broadcast server.  Each websocket session runs
\* websocket_endpoint as one asyncio task; the tasks interleave at the awaits
\* (receive_text, each send_text of the broadcast loop).  The peers are the
\* environment: they connect, write any text frame, read every frame they are
\* sent as it arrives, and disconnect.  A peer that has written a Call awaits
\* its reply before it writes again, and takes as the reply the CallResult or
\* CallError that carries the unique id of its Call (as call() of the ocpp
\* library does, and as the comparison of the test client accepts).

\* Unique ids the peers use.
ApiIds == {1, 2}

\* The keys of the request_model dictionary.
request_model ==
    {"Authorize", "BootNotification", "CancelReservation", "ChangeAvailability",
     "ChangeConfiguration", "ClearCache", "ClearChargingProfile", "DataTransfer",
     "DiagnosticsStatusNotification", "FirmwareStatusNotification",
     "GetConfiguration", "GetDiagnostics", "GetLocalListVersion", "Heartbeat",
     "MeterValues", "RemoteStartTransaction", "RemoteStopTransaction",
     "ReserveNow", "Reset", "SendLocalList", "SetChargingProfile",
     "StartTransaction", "StatusNotification", "StopTransaction",
     "TriggerMessage", "UnlockConnector", "UpdateFirmware"}

ApiCall(id, action, payload) == RawFrame(TRUE, <<2, id, action, payload>>)
ApiCallResult(id, payload) == RawFrame(TRUE, <<3, id, payload>>)
ApiCallError(id, code) == RawFrame(TRUE, <<4, id, code, "", "{}">>)
NotJson == RawFrame(FALSE, <<"not-json">>)

\* The frames a peer writes: a Call the server has a handler for, a Call of an
\* action it has none for, a Call whose payload lacks a required field, a
\* CallResult, a CallError, and text that is not JSON.
PeerFrames ==
    {ApiCall(i, "Heartbeat", "{}") : i \in ApiIds}
    \cup {ApiCall(i, "GetCompositeSchedule", "{}") : i \in ApiIds}
    \cup {ApiCall(i, "StartTransaction", "{bad}") : i \in ApiIds}
    \cup {ApiCallResult(i, "{}") : i \in ApiIds}
    \cup {ApiCallError(i, "NotImplemented") : i \in ApiIds}
    \cup {NotJson}

IsCall(d) == d.json /\ Len(d.elems) >= 4 /\ d.elems[1] = 2

\* The inner try block with a route_message that goes by the four elements
\* message[:4] has kept.
ApiProcess_TruncatesToFour(d, u) ==
    IF ~d.json THEN [unique_id |-> u, exc |-> "JSONDecodeError", handler |-> ""]
    ELSE IF Len(d.elems) < 3 THEN [unique_id |-> u, exc |-> "ValueError", handler |-> ""]
    ELSE IF Len(d.elems) < 4 THEN [unique_id |-> u, exc |-> "ValueError", handler |-> ""]
    ELSE IF d.elems[1] # 2
         THEN [unique_id |-> d.elems[2], exc |-> "ValueError", handler |-> ""]
    ELSE IF d.elems[3] \notin request_model
         THEN [unique_id |-> d.elems[2], exc |-> "ValueError", handler |-> ""]
    ELSE IF d.elems[4] # "{}"
         THEN [unique_id |-> d.elems[2], exc |-> "ValidationError", handler |-> ""]
    ELSE [unique_id |-> d.elems[2], exc |-> "TypeError", handler |-> d.elems[3]]

\* The inner try block on frame d, unique_id being bound to u (or Unbound):
\* the binding of unique_id afterwards and the exception the block ends with.
\* json.loads raises on text that is not JSON; the unpacking of message[:4]
\* raises on three elements, before it binds any name; a message type other
\* than 2, an action without request model and a payload the model rejects
\* raise.  A frame that passes them all reaches route_message, and the block
\* raises there as well: ChargePoint.route_message of the ocpp library writes
\* its result with connection.send(text), which the Starlette WebSocket
\* refuses (TypeError), and it returns None, which json.loads in the next line
\* refuses (TypeError).  The loop that broadcasts the response is never
\* reached.  `handler` is the action whose handler route_message runs before
\* it fails ("" when none is run): message[:4] lets an array of more than
\* four elements through, but route_message parses the raw frame again, and
\* the Call constructor of the library takes exactly three arguments after
\* the tag.
ApiProcess(d, u) ==
    IF ~d.json THEN [unique_id |-> u, exc |-> "JSONDecodeError", handler |-> ""]
    ELSE IF Len(d.elems) < 3 THEN [unique_id |-> u, exc |-> "ValueError", handler |-> ""]
    ELSE IF Len(d.elems) < 4 THEN [unique_id |-> u, exc |-> "ValueError", handler |-> ""]
    ELSE IF d.elems[1] # 2
         THEN [unique_id |-> d.elems[2], exc |-> "ValueError", handler |-> ""]
    ELSE IF d.elems[3] \notin request_model
         THEN [unique_id |-> d.elems[2], exc |-> "ValueError", handler |-> ""]
    ELSE IF d.elems[4] # "{}"
         THEN [unique_id |-> d.elems[2], exc |-> "ValidationError", handler |-> ""]
    ELSE [unique_id |-> d.elems[2], exc |-> "TypeError",
          handler |-> IF Len(d.elems) = 4 THEN d.elems[3] ELSE ""]

\* error_response = [3, unique_id, "FormationViolation", {"message": str(e)}]
ErrorResponse(u) == RawFrame(TRUE, <<3, u, "FormationViolation", "{message}">>)

\* Frame f is a CallResult or CallError with unique id u.
IsReplyTo(f, u) ==
    f.json /\ Len(f.elems) >= 3 /\ f.elems[1] \in {3, 4} /\ f.elems[2] = u

\* send_text(e.f) to session c succeeds: its peer reads the frame, and a peer
\* awaiting the reply with the unique id of the frame is resumed by it.
SendText(c, e) ==
    /\ lastWrite' = e
    /\ pending' = [pending EXCEPT ![c] = IF IsReplyTo(e.f, @) THEN None ELSE @]

\* No frame is written in this step.
Quiet == lastWrite' = NoDelivery

\* list.remove(x): the list without the first occurrence of x.
ListRemove(l, x) ==
    LET i == CHOOSE k \in 1..Len(l) : l[k] = x /\ \A j \in 1..(k - 1) : l[j] # x
    IN  SubSeq(l, 1, i - 1) \o SubSeq(l, i + 1, Len(l))

\* History: connected_clients changes under the sessions that are iterating it.
MarkChanged ==
    ccChanged' = [t \in Sessions |-> hpc'[t] = "bcast" /\ (ccChanged[t] \/ hpc[t] = "bcast")]

\* The sessions in the order they connect (they differ in nothing else).
ConnectsAfter(s) == CASE s = "a" -> {} [] s = "b" -> {"a"} [] s = "c" -> {"a", "b"}

\* A peer connects: accept, connected_clients.append(websocket).
Connect(s) ==
    /\ hpc[s] = "off"
    /\ \A t \in ConnectsAfter(s) : hpc[t] # "off"
    /\ hpc' = [hpc EXCEPT ![s] = "recv"]
    /\ wsOpen' = [wsOpen EXCEPT ![s] = TRUE]
    /\ connected_clients' = Append(connected_clients, s)
    /\ MarkChanged
    /\ Quiet
    /\ UNCHANGED <<bi, data, unique_id, pending, sent, closes, ccAtRecv,
                   fwdTo, failedTo, cpVars, testVars>>

\* The peer of session s closes the connection.
PeerClose(s) ==
    /\ wsOpen[s]
    /\ hpc[s] \in {"recv", "bcast"}
    /\ closes < MaxCloses
    /\ closes' = closes + 1
    /\ wsOpen' = [wsOpen EXCEPT ![s] = FALSE]
    /\ Quiet
    /\ UNCHANGED <<connected_clients, hpc, bi, data, unique_id, pending,
                   sent, ccAtRecv, ccChanged, fwdTo, failedTo, cpVars, testVars>>

\* `if client != websocket`: the index of the first client at or after index
\* i of list l that is not session s (its own session, which the list holds
\* once, the loop passes without suspending).
SkipSelf(l, s, i) == IF i <= Len(l) /\ l[i] = s THEN i + 1 ELSE i

\* The index of the client the broadcast loop of session s sends to next, in
\* connected_clients as it is now.
LoopAt(s) == SkipSelf(connected_clients, s, bi[s])

\* An endpoint that takes the next frame while it is still working on the
\* previous one.
Receive_WhileProcessing(s, f) ==
    /\ hpc[s] \in {"recv", "bcast"}
    /\ wsOpen[s]
    /\ pending[s] = None
    /\ sent < MaxFrames
    /\ sent' = sent + 1
    /\ pending' = [pending EXCEPT ![s] = IF IsCall(f) THEN f.elems[2] ELSE None]
    /\ data' = [data EXCEPT ![s] = f]
    /\ hpc' = [hpc EXCEPT ![s] = "bcast"]
    /\ bi' = [bi EXCEPT ![s] = 1]
    /\ ccAtRecv' = [ccAtRecv EXCEPT ![s] = connected_clients]
    /\ ccChanged' = [ccChanged EXCEPT ![s] = FALSE]
    /\ fwdTo' = [fwdTo EXCEPT ![s] = <<>>]
    /\ failedTo' = [failedTo EXCEPT ![s] = {}]
    /\ Quiet
    /\ UNCHANGED <<connected_clients, unique_id, wsOpen, closes, cpVars, testVars>>

\* data = await websocket.receive_text(): the peer of session s, which awaits
\* no reply, has written frame f (after a Call it awaits the reply); the
\* broadcast loop starts.
Receive(s, f) ==
    /\ hpc[s] = "recv"
    /\ wsOpen[s]
    /\ pending[s] = None
    /\ sent < MaxFrames
    /\ sent' = sent + 1
    /\ pending' = [pending EXCEPT ![s] = IF IsCall(f) THEN f.elems[2] ELSE None]
    /\ data' = [data EXCEPT ![s] = f]
    /\ hpc' = [hpc EXCEPT ![s] = "bcast"]
    /\ bi' = [bi EXCEPT ![s] = 1]
    /\ ccAtRecv' = [ccAtRecv EXCEPT ![s] = connected_clients]
    /\ ccChanged' = [ccChanged EXCEPT ![s] = FALSE]
    /\ fwdTo' = [fwdTo EXCEPT ![s] = <<>>]
    /\ failedTo' = [failedTo EXCEPT ![s] = {}]
    /\ Quiet
    /\ UNCHANGED <<connected_clients, unique_id, wsOpen, closes, cpVars, testVars>>

\* receive_text raises WebSocketDisconnect: connected_clients.remove(websocket)
\* and the endpoint returns.
Disconnect(s) ==
    /\ hpc[s] = "recv"
    /\ ~wsOpen[s]
    /\ connected_clients' = ListRemove(connected_clients, s)
    /\ hpc' = [hpc EXCEPT ![s] = "done"]
    /\ MarkChanged
    /\ Quiet
    /\ UNCHANGED <<bi, data, unique_id, wsOpen, pending, sent, closes,
                   ccAtRecv, fwdTo, failedTo, cpVars, testVars>>

\* The raw frame of session s is sent to `client`; a send_text that raises
\* (the peer has closed) is logged.
TrySend(s, client) ==
    IF wsOpen[client]
    THEN /\ SendText(client, Delivery(client, data[s], s, FALSE, data[s]))
         /\ fwdTo' = [fwdTo EXCEPT ![s] = Append(@, client)]
         /\ UNCHANGED failedTo
    ELSE /\ failedTo' = [failedTo EXCEPT ![s] = @ \cup {client}]
         /\ UNCHANGED <<pending, fwdTo>> /\ Quiet

\* The body of the broadcast loop without its try/except: a send_text that
\* raises ends the endpoint through the outer handler.
ForwardTo_AbortsOnFailure(s, client) ==
    /\ TrySend(s, client)
    /\ IF ~wsOpen[client]
       THEN /\ connected_clients' = ListRemove(connected_clients, s)
            /\ hpc' = [hpc EXCEPT ![s] = "done"]
            /\ MarkChanged
       ELSE UNCHANGED <<hpc, connected_clients, ccChanged>>

\* The body of the broadcast loop for a client other than the sender: the
\* send is tried and the loop goes on.
ForwardTo(s, client) ==
    /\ TrySend(s, client)
    /\ UNCHANGED <<hpc, connected_clients, ccChanged>>

\* One iteration of `for client in connected_clients` that sends: the list
\* iterator fetches the element at its index in the list as it is now, and
\* advances.
Forward(s) ==
    /\ hpc[s] = "bcast"
    /\ LoopAt(s) <= Len(connected_clients)
    /\ bi' = [bi EXCEPT ![s] = LoopAt(s) + 1]
    /\ ForwardTo(s, connected_clients[LoopAt(s)])
    /\ UNCHANGED <<data, unique_id, wsOpen, sent, closes, ccAtRecv, cpVars,
                   testVars>>

\* The error response is written to the sender and the loop goes on.
LoopOn(s, u) ==
    /\ SendText(s, Delivery(s, ErrorResponse(u), s, TRUE, data[s]))
    /\ hpc' = [hpc EXCEPT ![s] = "recv"]
    /\ ccChanged' = [ccChanged EXCEPT ![s] = FALSE]
    /\ UNCHANGED connected_clients

\* The outer handler without its connected_clients.remove(websocket).
EndSession_KeepsClient(s) ==
    /\ hpc' = [hpc EXCEPT ![s] = "done"]
    /\ UNCHANGED <<pending, connected_clients, ccChanged>> /\ Quiet

\* The outer handler: connected_clients.remove(websocket), and the endpoint
\* returns, which closes the connection.
EndSession(s) ==
    /\ connected_clients' = ListRemove(connected_clients, s)
    /\ hpc' = [hpc EXCEPT ![s] = "done"]
    /\ MarkChanged
    /\ UNCHANGED pending /\ Quiet

\* The except block that lets text that is not JSON pass without a reply.
ReplyError_IgnoresNotJson(s, r) ==
    IF r.exc = "JSONDecodeError"
    THEN /\ hpc' = [hpc EXCEPT ![s] = "recv"]
         /\ ccChanged' = [ccChanged EXCEPT ![s] = FALSE]
         /\ UNCHANGED <<pending, connected_clients>> /\ Quiet
    ELSE IF r.unique_id # Unbound /\ wsOpen[s] THEN LoopOn(s, r.unique_id)
    ELSE EndSession(s)

\* except Exception as e: the error response is built from unique_id and
\* written to the sender.  With unique_id unbound the except block itself
\* raises (UnboundLocalError), and so does send_text when the peer has
\* closed: the outer handler takes over.
ReplyError(s, r) ==
    IF r.unique_id # Unbound /\ wsOpen[s] THEN LoopOn(s, r.unique_id)
    ELSE EndSession(s)

\* The frame and the loop index are dead until the next receive_text
\* overwrites them (and the history of the broadcast ends with it).
LoopAgain(s) ==
    /\ data' = [data EXCEPT ![s] = NoData]
    /\ bi' = [bi EXCEPT ![s] = 1]
    /\ ccAtRecv' = [ccAtRecv EXCEPT ![s] = <<>>]
    /\ fwdTo' = [fwdTo EXCEPT ![s] = <<>>]
    /\ failedTo' = [failedTo EXCEPT ![s] = {}]

\* The broadcast loop is exhausted: the frame is parsed, validated and
\* routed, and the except block answers.
Dispatch(s) ==
    /\ hpc[s] = "bcast"
    /\ LoopAt(s) > Len(connected_clients)
    /\ LET r == ApiProcess(data[s], unique_id[s])
       IN  /\ unique_id' = [unique_id EXCEPT ![s] = r.unique_id]
           /\ ReplyError(s, r)
    /\ LoopAgain(s)
    /\ UNCHANGED <<wsOpen, sent, closes, cpVars, testVars>>

\* SpecApi: two sessions, whose peers write frames of every kind.
ApiSessions == {"a", "b"}

NextApi ==
    \/ \E s \in ApiSessions : Connect(s)
    \/ \E s \in ApiSessions : PeerClose(s)
    \/ \E s \in ApiSessions, f \in PeerFrames : Receive(s, f)
    \/ \E s \in ApiSessions : Disconnect(s)
    \/ \E s \in ApiSessions : Forward(s)
    \/ \E s \in ApiSessions : Dispatch(s)

SpecApi == Init /\ [][NextApi]_vars

\* SpecRelay: three sessions, whose peers write a well-formed Call or text
\* that is not JSON (the broadcast loop does not look into the frame).
RelayFrames == {ApiCall(1, "Heartbeat", "{}"), NotJson}

NextRelay ==
    \/ \E s \in Sessions : Connect(s)
    \/ \E s \in Sessions : PeerClose(s)
    \/ \E s \in Sessions, f \in RelayFrames : Receive(s, f)
    \/ \E s \in Sessions : Disconnect(s)
    \/ \E s \in Sessions : Forward(s)
    \/ \E s \in Sessions : Dispatch(s)

SpecRelay == Init /\ [][NextRelay]_vars

\* SpecParse: one session, whose peer writes JSON arrays of every length up
\* to five under each of the three tags, besides the frames of SpecApi.
ParseTags == {2, 3, 4}

\* The JSON array of the first n of the elements tag, 1, "Heartbeat", {}, {}.
ArrayOf(tag, n) == RawFrame(TRUE, SubSeq(<<tag, 1, "Heartbeat", "{}", "{}">>, 1, n))

ParseFrames == {ArrayOf(t, n) : t \in ParseTags, n \in 0..5} \cup PeerFrames

\* The messages of the three variants, as the lists a sender builds.
Messages ==
    {<<2, i, "Heartbeat", "{}">> : i \in ApiIds}
    \cup {<<3, i, "{}">> : i \in ApiIds}
    \cup {<<4, i, "NotImplemented", "", "{}">> : i \in ApiIds}

\* json.dumps(message): the text of the JSON array of the elements of m.
Encode(m) == RawFrame(TRUE, m)

\* message = json.loads(data) with the length test and the unpacking
\* message_type, unique_id, action, payload = message[:4]: the four values
\* bound, or no message when one of the three raises.
Decode(d) ==
    IF ~d.json \/ Len(d.elems) < 3 THEN [ok |-> FALSE, message |-> <<>>]
    ELSE IF Len(d.elems) < 4 THEN [ok |-> FALSE, message |-> <<>>]
    ELSE [ok |-> TRUE, message |-> SubSeq(d.elems, 1, 4)]

ParseSessions == {"a"}

NextParse ==
    \/ \E s \in ParseSessions : Connect(s)
    \/ \E s \in ParseSessions : PeerClose(s)
    \/ \E s \in ParseSessions, f \in ParseFrames : Receive(s, f)
    \/ \E s \in ParseSessions : Disconnect(s)
    \/ \E s \in ParseSessions : Dispatch(s)

SpecParse == Init /\ [][NextParse]_vars

\* ------------------------------------------------------------------ steps

\* The central system's read loop takes a Call of action a.
CSHandles(a) ==
    /\ toCS # <<>>
    /\ Head(toCS).mtype = 2
    /\ Head(toCS).action = a
    /\ toCS' = Tail(toCS)

\* The reply the central system has just written.
CSReply == toCP'[Len(toCP')]

\* The charge point's read loop takes a Call of action a and runs its handler.
HandlesCall(a) ==
    /\ pc["rd"] = "idle"
    /\ toCP # <<>>
    /\ Head(toCP).mtype = 2
    /\ Head(toCP).action = a
    /\ toCP' = Tail(toCP)

\* Task t, awaiting the reply to its StopTransaction, is resumed (by the
\* reply or by the timeout).
StopResumes(t) ==
    /\ pc[t] = "wait"
    /\ at[t] = "sp"
    /\ at'[t] # "sp"

\* Task t is resumed by an Accepted reply to its StopTransaction.
StopAccepted(t) ==
    /\ StopResumes(t)
    /\ respQ # <<>>
    /\ respQ' = Tail(respQ)
    /\ Head(respQ).id = wid[t]
    /\ Head(respQ).mtype = 3
    /\ Head(respQ).status = "Accepted"

\* Connector c has a transaction the central system accepted and no stop of
\* which it accepted since.
CSOpen(c) ==
    \E i \in 1..Len(csTransactions) :
        csTransactions[i].connectorId = c /\ csTransactions[i].open

\* ----------------------------------------------------------------- claims

\* C1: a StartTransaction the central system receives for a connector that
\* already has an open transaction is answered with a status other than
\* Accepted, and no second transaction is recorded for the connector.
C1_DoubleStartRejected ==
    [][(CSHandles("StartTransaction") /\ CSOpen(Head(toCS).connectorId))
         => (CSReply.status # "Accepted" /\ csTransactions' = csTransactions)]_vars

\* C2: no two accepted StartTransactions receive the same transactionId.
C2_FreshTransactionId ==
    \A i, j \in 1..Len(csTransactions) :
        i # j => csTransactions[i].transactionId # csTransactions[j].transactionId

\* C3: in every state of the charge point, transaction_id is set if and only
\* if status is Charging.
C3_TransactionIffCharging ==
    (transaction_id # None) <=> (status = "Charging")

\* C4: a stop whose transactionId does not match the open transaction leaves
\* the status Charging and the open transaction_id unchanged.
C4_StopMismatchRejected ==
    [][\A t \in Tasks :
         (/\ StopResumes(t)
          /\ status = "Charging"
          /\ transaction_id # None
          /\ req[t].transactionId # transaction_id)
         => (status' = "Charging" /\ transaction_id' = transaction_id)]_vars

\* C5: a RemoteStartTransaction handled, or start_transaction invoked, while
\* status is not Available sends no Call, leaves status and transaction_id
\* unchanged, and the RemoteStartTransaction is answered by a CallResult with
\* status Rejected.
C5_StartWhileNotAvailable ==
    [][/\ (status # "Available" /\ HandlesCall("RemoteStartTransaction"))
          => /\ status' = status
             /\ transaction_id' = transaction_id
             /\ nextId' = nextId
             /\ pc'["rd"] = "idle"
             /\ toCS' = Append(toCS, CallResult(Head(toCP), None, "Rejected"))
       /\ (status # "Available" /\ \E t \in AppTasks : AppStartTransaction(t))
          => /\ status' = status
             /\ transaction_id' = transaction_id
             /\ nextId' = nextId
             /\ toCS' = toCS
             /\ pc' = pc]_vars

\* C5 (witness): while Charging with a transaction open, a
\* RemoteStartTransaction has been answered with Rejected.
C5_Witness ==
    /\ status = "Charging"
    /\ transaction_id # None
    /\ \E i \in 1..Len(toCS) :
          /\ toCS[i].mtype = 3
          /\ toCS[i].action = "RemoteStartTransaction"
          /\ toCS[i].status = "Rejected"

\* C6: a ChangeAvailability handled while Charging leaves the status
\* Charging; handled while not Charging it is applied at once.
C6_ChangeAvailabilityDeferred ==
    [][HandlesCall("ChangeAvailability")
         => IF status = "Charging"
            THEN status' = "Charging"
            ELSE status' = (IF Head(toCP).type = "Operative" THEN "Available"
                            ELSE "Unavailable")]_vars

\* C7: after Reset(Hard) status is Available and transaction_id is unset,
\* whatever they were.
C7_HardResetClears ==
    [][(HandlesCall("Reset") /\ Head(toCP).type = "Hard")
         => (status' = "Available" /\ transaction_id' = None)]_vars

\* C8: Reset(Soft) sets status Available only if not Charging; while Charging
\* it changes neither status nor transaction_id.
C8_SoftResetKeepsCharging ==
    [][(HandlesCall("Reset") /\ Head(toCP).type = "Soft")
         => IF status = "Charging"
            THEN status' = status /\ transaction_id' = transaction_id
            ELSE status' = "Available" /\ transaction_id' = transaction_id]_vars

\* C9: an accepted StopTransaction of the open transaction clears
\* transaction_id, and sets status Available unless the last
\* ChangeAvailability asked for Inoperative: then the status is not
\* overwritten with Available.
C9_StopKeepsForcedUnavailable ==
    [][\A t \in Tasks :
         (StopAccepted(t) /\ transaction_id # None
            /\ req[t].transactionId = transaction_id)
         => /\ transaction_id' = None
            /\ IF lastAvailability = "Inoperative"
               THEN status' # "Available"
               ELSE status' = "Available"]_vars

\* C10: the frame the test client receives after its i-th message is of
\* message type 3 and carries the unique id of that message.
C10_EveryTestCallAnswered ==
    \A i \in 1..Len(testLog) :
        testLog[i].mtype = 3 /\ testLog[i].id = TEST_MESSAGES[i].id

\* ------------------------------------------------ steps of the broadcast server

\* Session s leaves the broadcast loop and answers its frame.
Dispatches(s) ==
    /\ hpc[s] = "bcast"
    /\ LoopAt(s) > Len(connected_clients)
    /\ hpc'[s] # "bcast"

\* Session s tries to forward its frame to the client the loop is at.
Forwards(s) ==
    /\ hpc[s] = "bcast"
    /\ LoopAt(s) <= Len(connected_clients)
    /\ bi'[s] # bi[s] \/ hpc'[s] # "bcast"

\* The broadcast loop of session s is through.
LoopDone(s) == hpc[s] = "bcast" /\ LoopAt(s) > Len(connected_clients)

\* The step wrote reply f to session s, and nothing else.
RepliesWith(s, f) == lastWrite' = Delivery(s, f, s, TRUE, data[s])

\* The sessions in list l.
InList(l) == {l[i] : i \in 1..Len(l)}

\* How often session t occurs in list l.
Occurrences(l, t) == Cardinality({i \in 1..Len(l) : l[i] = t})

\* C11: a Heartbeat Call [2, id, "Heartbeat", {}] is answered with a
\* CallResult of three elements [3, id, payload] whose payload carries
\* currentTime.
C11_HeartbeatAnswered ==
    [][\A s \in Sessions :
         (Dispatches(s) /\ wsOpen[s] /\ IsCall(data[s])
            /\ data[s].elems[3] = "Heartbeat")
         => RepliesWith(s, ApiCallResult(data[s].elems[2], "{currentTime}"))]_vars

\* C12: the Call a peer awaits the reply to is resolved only by the reply the
\* server wrote for that Call of that session; a frame written for another
\* session's frame never resolves it.
C12_ResolvedByOwnReply ==
    [][\A s \in Sessions :
         (pending[s] # None /\ pending'[s] = None)
         => /\ lastWrite'.to = s
            /\ lastWrite'.origin = s
            /\ lastWrite'.reply
            /\ IsCall(lastWrite'.cause)
            /\ lastWrite'.cause.elems[2] = pending[s]]_vars

\* C13: a Call of an action without handler is answered with a CallError
\* whose code is NotImplemented, and the session goes on.
C13_UnknownActionNotImplemented ==
    [][\A s \in Sessions :
         (Dispatches(s) /\ wsOpen[s] /\ IsCall(data[s])
            /\ data[s].elems[3] \notin request_model)
         => /\ RepliesWith(s, ApiCallError(data[s].elems[2], "NotImplemented"))
            /\ hpc'[s] = "recv"]_vars

\* C14: a Call whose payload fails the constraints of its action is answered
\* with a frame of five elements [4, uniqueId, "FormationViolation", ..].
C14_FormationViolationCallError ==
    [][\A s \in Sessions :
         (Dispatches(s) /\ wsOpen[s] /\ IsCall(data[s])
            /\ data[s].elems[3] \in request_model /\ data[s].elems[4] # "{}")
         => /\ lastWrite'.to = s
            /\ lastWrite'.reply
            /\ Len(lastWrite'.f.elems) = 5
            /\ lastWrite'.f.elems[1] = 4
            /\ lastWrite'.f.elems[2] = data[s].elems[2]
            /\ lastWrite'.f.elems[3] = "FormationViolation"]_vars

\* C15: a frame that is not JSON is never passed over silently: the session
\* writes a FormationViolation error reply to its sender or it ends.
C15_NotJsonAnsweredOrClosed ==
    [][\A s \in Sessions :
         (Dispatches(s) /\ ~data[s].json)
         => \/ /\ lastWrite'.to = s
               /\ lastWrite'.reply
               /\ lastWrite'.cause = data[s]
               /\ Len(lastWrite'.f.elems) >= 3
               /\ lastWrite'.f.elems[3] = "FormationViolation"
               /\ hpc'[s] = "recv"
            \/ /\ hpc'[s] = "done"
               /\ s \notin InList(connected_clients')]_vars

\* C15 (witness): text that is not JSON, received after an earlier frame, has
\* just been answered with the error reply.
C15_Witness ==
    /\ lastWrite.reply
    /\ lastWrite.cause = NotJson
    /\ hpc[lastWrite.to] = "recv"

\* C16: an exception raised while an inbound Call is routed to its handler is
\* answered with a CallError whose code is InternalError; the session goes on
\* and no other session is touched.
C16_HandlerErrorInternalError ==
    [][\A s \in Sessions :
         (Dispatches(s) /\ wsOpen[s]
            /\ ApiProcess(data[s], unique_id[s]).exc = "TypeError")
         => /\ RepliesWith(s, ApiCallError(data[s].elems[2], "InternalError"))
            /\ hpc'[s] = "recv"
            /\ \A t \in Sessions \ {s} : hpc'[t] = hpc[t]]_vars

\* C17: an inbound CallResult or CallError (the server has no call pending)
\* is discarded: nothing is written back and the session goes on.
C17_UnmatchedResultDiscarded ==
    [][\A s \in Sessions :
         (Dispatches(s) /\ data[s].json /\ data[s].elems[1] \in {3, 4})
         => /\ lastWrite' = NoDelivery
            /\ hpc'[s] = "recv"]_vars

\* C18: a forwarded frame is the raw frame, is never written to its sender,
\* and when the broadcast loop is through, before the frame is dispatched,
\* every other session that was connected when the frame was received (and
\* still is) has been sent it.
C18_ForwardedToAllOthers ==
    /\ (lastWrite # NoDelivery /\ ~lastWrite.reply)
          => (lastWrite.f = lastWrite.cause /\ lastWrite.to # lastWrite.origin)
    /\ \A s \in Sessions :
          LoopDone(s)
          => /\ s \notin InList(fwdTo[s])
             /\ \A t \in InList(ccAtRecv[s]) \ {s} :
                   (wsOpen[t] /\ t \in InList(connected_clients))
                   => t \in InList(fwdTo[s])

C20_BroadcastToleratesChange ==
    \A s \in Sessions :
        (LoopDone(s) /\ ccChanged[s])
        => \A t \in (InList(ccAtRecv[s]) \cap InList(connected_clients)) \ {s} :
              wsOpen[t] => Occurrences(fwdTo[s], t) = 1

\* C21: connected_clients holds a session exactly while its endpoint runs:
\* once from accept to the end of the session, whatever ends it, and not at
\* all before or after; it is removed in the very step that ends the session.
C21_ConnectedWhileRunning ==
    [][\A s \in Sessions :
         /\ Occurrences(connected_clients', s)
               = (IF hpc'[s] \in {"recv", "bcast"} THEN 1 ELSE 0)
         /\ (Occurrences(connected_clients, s) = 1
               /\ Occurrences(connected_clients', s) = 0)
               => (hpc[s] \in {"recv", "bcast"} /\ hpc'[s] = "done")]_vars

\* C21 (witness): one session was ended by a processing error, its peer still
\* connected, the other one by the disconnect of its peer, and the list is
\* empty again.
C21_Witness ==
    /\ hpc["a"] = "done" /\ hpc["b"] = "done"
    /\ \E s \in ApiSessions : wsOpen[s]
    /\ \E s \in ApiSessions : ~wsOpen[s]
    /\ connected_clients = <<>>

\* C25: a session works on one frame at a time, in the order of receipt: it
\* reads a frame only when it holds none, the reply it writes is the reply to
\* the frame it holds, and a Call it is through with is answered under the
\* unique id of that Call (or the session ends) before the next frame is read.
C25_ProcessedInOrder ==
    [][\A s \in Sessions :
         /\ (data'[s] # data[s] /\ data'[s] # NoData)
               => (hpc[s] = "recv" /\ data[s] = NoData)
         /\ (lastWrite'.reply /\ lastWrite'.to = s)
               => (Dispatches(s) /\ lastWrite'.cause = data[s])
         /\ (Dispatches(s) /\ IsCall(data[s]))
               => \/ /\ lastWrite'.reply
                     /\ lastWrite'.to = s
                     /\ lastWrite'.f.elems[2] = data[s].elems[2]
                     /\ data'[s] = NoData
                  \/ hpc'[s] = "done"]_vars

\* C25 (witness): the one session there is has read two frames, both Calls,
\* and has just written the reply to the second.
C25_Witness ==
    /\ hpc["b"] = "off"
    /\ sent = MaxFrames
    /\ lastWrite.reply
    /\ lastWrite.to = "a"
    /\ IsCall(lastWrite.cause)

\* The unique id frame d carries: the second element of a JSON array of at
\* least two elements, None otherwise.
FrameId(d) == IF d.json /\ Len(d.elems) >= 2 THEN d.elems[2] ELSE None

\* C30: the error reply a session writes for a frame carries the unique id of
\* that frame, or no id when the frame has none; never the id of an earlier
\* frame of the connection.
C30_ErrorReplyOwnId ==
    [][\A s \in Sessions :
         (Dispatches(s) /\ lastWrite'.reply /\ lastWrite'.to = s)
         => lastWrite'.f.elems[2] = FrameId(data[s])]_vars

\* Frame d is a JSON array of four elements with tag 2.
FourWithTagTwo(d) == d.json /\ Len(d.elems) = 4 /\ d.elems[1] = 2

C28_RoundTrip ==
    \A s \in Sessions, m \in Messages :
        data[s] = Encode(m) => Decode(data[s]) = [ok |-> TRUE, message |-> m]

\* The central system has written the reply to the Call the read loop's
\* handler awaits the reply to.
HandlerReplyWritten ==
    \E i \in 1..Len(toCP) : toCP[i].mtype = 3 /\ toCP[i].id = wid["rd"]

\* C29: a handler of the read loop that awaits the reply to its own outbound
\* call (the StartTransaction of a RemoteStartTransaction received while
\* Available, the StatusNotification of the other handlers) is, once the
\* central system has written that reply, resumed by the reply and not by
\* the timeout of the call; the StartTransaction then leaves status Charging.
C29_HandlerCallAnswered ==
    [][(pc["rd"] = "wait" /\ HandlerReplyWritten /\ cur["rd"] # NoFrame
          /\ (pc'["rd"] # "wait" \/ at'["rd"] # at["rd"]))
         => /\ respQ # <<>>
            /\ Head(respQ).id = wid["rd"]
            /\ at["rd"] = "st" => status' = "Charging"]_vars

\* ------------------------------------------ steps of the charge-point session

\* The call task t awaits the reply to ends in this step.
CallEnds(t) == pc[t] = "wait" /\ (pc'[t] # "wait" \/ wid'[t] # wid[t])

\* The task of t is cancelled while it awaits a reply.
Cancelled(t) == pc[t] = "wait" /\ pc'[t] = "cancelled"

\* The call of task t ends by its timeout: no reply was there to take.
TimesOut(t) == CallEnds(t) /\ respQ = <<>> /\ ~Cancelled(t)

\* C22: a call that awaits its reply on a connection that has closed is
\* ended by the close (ConnectionClosed): it does not stay pending until its
\* timeout runs out or until its task is cancelled.
C22_PendingFailOnClose ==
    [][\A t \in Tasks :
         (pc[t] = "wait" /\ ~connOpen) => (~TimesOut(t) /\ ~Cancelled(t))]_vars

\* C23: once the connection of the session is closed, the sleep of
\* send_heartbeat does not end in another Heartbeat call.
C23_NoHeartbeatAfterClose ==
    [][~connOpen => ~(pc["hb"] = "sleep" /\ beats' = beats + 1)]_vars

\* C24: at most one task awaits the reply to an outbound Call, and it holds
\* the call lock; a Call is written only by the task that holds the lock.
C24_OneCallUnanswered ==
    /\ Cardinality({t \in Tasks : pc[t] = "wait"}) <= 1
    /\ \A t \in Tasks : pc[t] = "wait" => Head(call_lock) = t

\* C24 (witness): the Heartbeat of send_heartbeat waits for the call lock
\* while the call of a handler awaits its reply.
C24_Witness ==
    /\ pc["rd"] = "wait"
    /\ pc["hb"] = "lock"
    /\ at["hb"] = "hb"

\* C27: a call that ends by its timeout leaves no task awaiting its unique
\* id and gives up the call lock, and its caller goes on: start_transaction
\* returns to its caller without a transaction, send_heartbeat goes to
\* sleep, the handler of the read loop writes its result, and the task that
\* has sent its StatusNotification enters send_heartbeat.
C27_TimeoutGivesControlBack ==
    [][\A t \in Tasks :
         TimesOut(t)
         => /\ \A u \in Tasks : pc'[u] = "wait" => wid'[u] # wid[t]
            /\ IF at[t] = "boot_sn" /\ pc'[t] # "sleep"
               THEN at'[t] = "hb" /\ pc'[t] \in {"wait", "lock"}
               ELSE /\ pc'[t] \in {"idle", "sleep", "ended"}
                    /\ wid'[t] = None
                    /\ \A i \in 1..Len(call_lock') : call_lock'[i] # t
            /\ at[t] = "hb" => pc'[t] = "sleep"
            /\ at[t] = "st" => (status' = status /\ transaction_id' = transaction_id)
            /\ (t = "rd" /\ connOpen)
                  => (pc'[t] = "idle" /\ Len(toCS') = Len(toCS) + 1)]_vars

\* C27 (witness): send_heartbeat sleeps while the Heartbeat it sent is still
\* unread by the central system: the call has ended by its timeout.
C27_Witness ==
    /\ pc["hb"] = "sleep"
    /\ connOpen
    /\ \E i \in 1..Len(toCS) : toCS[i].mtype = 2 /\ toCS[i].action = "Heartbeat"

\* ------------------------------------- steps of overlapping invocations

\* The StartTransaction call of task t is answered Accepted in this step:
\* start_transaction assigns transaction_id and sets status to Charging.
StartAccepted(t) ==
    /\ pc[t] = "wait"
    /\ at[t] = "st"
    /\ at'[t] = "st_sn"

\* C31: of two invocations of start_transaction that overlap only one starts
\* a transaction: whenever an accepted StartTransaction makes
\* start_transaction assign transaction_id, the connector is Available and
\* no transaction is assigned yet.
C31_OneStartPerTransition ==
    [][\A t \in Tasks :
         StartAccepted(t) => (status = "Available" /\ transaction_id = None)]_vars

\* ------------------------------------------- steps of the boot sequence

\* send_boot_notification_and_heartbeat passes `if interval:` in this step
\* and goes on to the StatusNotification and the Heartbeat loop.
BootPasses == at["hb"] = "boot" /\ at'["hb"] = "boot_sn"

\* The reply the awaiting task t takes in this step.
ReplyTaken(t) == IF respQ # <<>> /\ Head(respQ).id = wid[t] THEN Head(respQ) ELSE NoFrame

\* C32: the StatusNotification and the Heartbeats of
\* send_boot_notification_and_heartbeat are sent only after the
\* BootNotification was answered Accepted with a positive interval; no call
\* of the task is written before that.
C32_HeartbeatAfterAcceptedBoot ==
    [][/\ BootPasses
          => /\ ReplyTaken("hb").mtype = 3
             /\ ReplyTaken("hb").status = "Accepted"
             /\ ReplyTaken("hb").interval > 0
       /\ \A i \in 1..Len(toCS') :
             toCS'[i].action \in {"Heartbeat", "StatusNotification"}
                => at'["hb"] \in {"boot_sn", "hb"} \/ pc'["hb"] = "sleep"]_vars

\* ------------------------------------------- steps of ocpp_client.main

\* C33: main of ocpp_client.py has sent its BootNotification (the first
\* unique id is drawn) before the read loop of the session has ended.
C33_BootSentBeforeLoopEnds == clientPc # "start" => nextId > 1

\* ------------------------------------------- steps of the remote handlers

\* The read loop writes the result of the handler of the Call of action a it
\* runs, with status st.
HandlerReturns(a, st) ==
    /\ cur["rd"].action = a
    /\ toCS' = Append(toCS, CallResult(cur["rd"], None, st))

\* C34: when on_remote_stop_transaction returns Accepted after its
\* stop_transaction, the transaction is stopped: transaction_id is unset and
\* status is Available.
C34_StopAcceptedMeansStopped ==
    [][HandlerReturns("RemoteStopTransaction", "Accepted")
         => (transaction_id' = None /\ status' = "Available")]_vars

\* ------------------------------------------- steps of start_transaction

\* The operation task t runs returns in this step.
Returns(t) == pc[t] # "idle" /\ pc'[t] = "idle"

\* The StartTransaction call of task t ends in this step without an Accepted
\* result: by a result with another status, by a CallError or by the timeout.
StartFails(t) ==
    /\ CallEnds(t)
    /\ at[t] = "st"
    /\ ~(ReplyTaken(t).mtype = 3 /\ ReplyTaken(t).status = "Accepted")

\* C35: a StartTransaction call that fails makes start_transaction return
\* None at once, with status and transaction_id as they were and nothing
\* written to the connection.
C35_FailedStartChangesNothing ==
    [][\A t \in OverlapTasks :
         StartFails(t)
         => /\ Returns(t)
            /\ ret'[t].value = None
            /\ status' = status
            /\ transaction_id' = transaction_id
            /\ toCS' = toCS]_vars

\* C35 (witness): the one invocation made has returned None, its
\* StartTransaction was read and answered by the central system and the
\* answer was taken by the call; the connector is still Available.
C35_Witness ==
    /\ appCount = 1
    /\ nextId = 2
    /\ \A t \in Tasks : pc[t] = "idle"
    /\ toCS = <<>> /\ toCP = <<>> /\ respQ = <<>>
    /\ \A t \in OverlapTasks : ret[t].value = None
    /\ status = "Available"
    /\ transaction_id = None

\* C36: on_remote_start_transaction does not answer Rejected when its
\* StartTransaction was accepted and status was set to Charging.
C36_AcceptedStartAnswered ==
    [][\A t \in OverlapTasks :
         (Returns(t) /\ at[t] = "st_sn" /\ cur[t] = RemoteStartCall)
         => ret'[t].reply = "Accepted"]_vars

\* ------------------------------------------- steps of send_heartbeat

\* The task is inside the loop of send_heartbeat: in its Heartbeat call or in
\* the sleep after it.
InHeartbeatLoop == pc["hb"] = "sleep" \/ (pc["hb"] \in {"lock", "wait"} /\ at["hb"] = "hb")

\* C37: once send_heartbeat runs, its loop goes on whatever becomes of a
\* Heartbeat call: from every point of the loop the sleep ends once more and
\* the next Heartbeat is attempted, unless the task is cancelled with the
\* session (or the calls of the model are used up).
C37_HeartbeatLoopGoesOn ==
    \A n \in 0..(MaxBeats - 1) :
        (InHeartbeatLoop /\ beats = n)
           ~> (beats = n + 1 \/ pc["hb"] = "cancelled" \/ nextId > MaxCalls)

\* C37 (witness): send_heartbeat awaits the reply to a Heartbeat while the
\* Heartbeat before it, which has failed by its timeout, is still unread.
C37_Witness ==
    /\ pc["hb"] = "wait"
    /\ at["hb"] = "hb"
    /\ Cardinality({i \in 1..Len(toCS) : toCS[i].action = "Heartbeat"}) = 2

====
